---- MODULE Spec2Model ----
(***************************************************************************)
(* md2slack/renderer.py: SlackRenderer.render and SlackRenderer._format_table *)
(*                                                                         *)
(* A Python str is a sequence of one-character strings.  A character       *)
(* outside ASCII is written by its code point ("U+2022").                  *)
(***************************************************************************)
EXTENDS Naturals, Sequences, FiniteSets

VARIABLES
    pc,             \* where the caller of render is: "idle", "loop", "done"
    tokens,         \* the argument of the call of render
    idx,            \* how many tokens the loop of render has taken
    list_counters,  \* render's local dict, indent level -> next number
    output,         \* render's local list of strings
    result,         \* what the last call of render returned
    calls,          \* how many calls of render the instance has had
    seen,           \* a call the caller kept: its number, tokens and result
    table_md,       \* the argument of the call of _format_table
    rows,           \* _format_table's local rows
    col_widths,     \* _format_table's local col_widths
    table_out       \* what _format_table returned

vars == <<pc, tokens, idx, list_counters, output, result, calls, seen,
          table_md, rows, col_widths, table_out>>

render_vars == <<pc, tokens, idx, list_counters, output, result, calls, seen>>
table_vars == <<table_md, rows, col_widths, table_out>>

(***************************************************************************)
(* Characters                                                              *)
(***************************************************************************)
NL == "\n"
SP == " "
STAR == "*"
PIPE == "|"

\* what str.strip() removes and what \s matches, among the characters used
Whitespace == {SP, NL}

Min(S) == CHOOSE x \in S : \A y \in S : x <= y
Max(S) == CHOOSE x \in S : \A y \in S : x >= y

(***************************************************************************)
(* str operations                                                          *)
(***************************************************************************)
\* c * n
RECURSIVE Repeat(_, _)
Repeat(c, n) == IF n = 0 THEN <<>> ELSE <<c>> \o Repeat(c, n - 1)

\* " " * indent_level
Spaces(n) == Repeat(SP, n)

\* sep.join(parts)
RECURSIVE join(_, _)
join(sep, parts) ==
    IF parts = <<>> THEN <<>>
    ELSE IF Len(parts) = 1 THEN parts[1]
    ELSE parts[1] \o sep \o join(sep, Tail(parts))

\* s.split(c), c one character
RECURSIVE split(_, _)
split(s, c) ==
    IF \A i \in 1..Len(s) : s[i] # c THEN <<s>>
    ELSE LET i == Min({j \in 1..Len(s) : s[j] = c})
         IN <<SubSeq(s, 1, i - 1)>> \o split(SubSeq(s, i + 1, Len(s)), c)

\* s.strip()
strip(s) ==
    LET keep == {i \in 1..Len(s) : s[i] \notin Whitespace}
    IN IF keep = {} THEN <<>> ELSE SubSeq(s, Min(keep), Max(keep))

\* s.strip(c): every leading and every trailing c goes
strip_char(s, c) ==
    LET keep == {i \in 1..Len(s) : s[i] # c}
    IN IF keep = {} THEN <<>> ELSE SubSeq(s, Min(keep), Max(keep))

\* s.rjust(w) in the place of s.ljust(w)
rjust(s, w) == IF Len(s) >= w THEN s ELSE Spaces(w - Len(s)) \o s

\* s.ljust(w)
ljust(s, w) == IF Len(s) >= w THEN s ELSE s \o Spaces(w - Len(s))

Digit == <<"0", "1", "2", "3", "4", "5", "6", "7", "8", "9">>

\* f"{number}" of a non-negative int
RECURSIVE str_int(_)
str_int(n) ==
    IF n < 10 THEN <<Digit[n + 1]>>
    ELSE str_int(n \div 10) \o <<Digit[(n % 10) + 1]>>

(***************************************************************************)
(* The regular expressions of render                                       *)
(***************************************************************************)
AllStars(s, a, b) == \A i \in a..b : s[i] = STAR
NoNewline(s, a, b) == \A i \in a..b : s[i] # NL

\* re.fullmatch(r'\*{k}(.+?)\*{k}', raw): "." matches anything but a newline
fullmatch_stars(k, raw) ==
    /\ Len(raw) >= 2 * k + 1
    /\ AllStars(raw, 1, k)
    /\ AllStars(raw, Len(raw) - k + 1, Len(raw))
    /\ NoNewline(raw, k + 1, Len(raw) - k)

\* The length of group 1 when \*{k}(.+?)\*{k} matches at position p of s, 0
\* when it does not: the lazy group takes the fewest characters.
GroupLen(k, s, p) ==
    LET cand == {m \in 1..Len(s) :
                    /\ p + 2 * k + m - 1 <= Len(s)
                    /\ AllStars(s, p, p + k - 1)
                    /\ NoNewline(s, p + k, p + k + m - 1)
                    /\ AllStars(s, p + k + m, p + 2 * k + m - 1)}
    IN IF cand = {} THEN 0 ELSE Min(cand)

\* re.search(r'\*{k}(.+?)\*{k}', raw)
search_stars(k, raw) == \E p \in 1..Len(raw) : GroupLen(k, raw, p) > 0

\* re.sub(r'\*{k}(.+?)\*{k}', r'\1', raw) from position p on: every match,
\* leftmost first and not overlapping, is replaced by its group 1; the
\* characters outside the matches stay.
RECURSIVE SubFrom(_, _, _)
SubFrom(k, s, p) ==
    IF p > Len(s) THEN <<>>
    ELSE LET m == GroupLen(k, s, p)
         IN IF m = 0 THEN <<s[p]>> \o SubFrom(k, s, p + 1)
            ELSE SubSeq(s, p + k, p + k + m - 1) \o SubFrom(k, s, p + 2 * k + m)

sub_stars(k, raw) == SubFrom(k, raw, 1)

\* group 1 of the first match of \*{k}(.+?)\*{k} in raw (raw holds one)
FirstSpan(k, raw) ==
    LET p == Min({q \in 1..Len(raw) : GroupLen(k, raw, q) > 0})
    IN SubSeq(raw, p + k, p + k + GroupLen(k, raw, p) - 1)

\* re.sub(r'^\*{k}(.+?)\*{k}$', r'\1', raw): one match at most, at the start;
\* "$" is the end of the string or the place before a newline ending it.
sub_anchored(k, raw) ==
    LET cand == {m \in 1..Len(raw) :
                    /\ 2 * k + m <= Len(raw)
                    /\ AllStars(raw, 1, k)
                    /\ NoNewline(raw, k + 1, k + m)
                    /\ AllStars(raw, k + m + 1, 2 * k + m)
                    /\ \/ 2 * k + m = Len(raw)
                       \/ 2 * k + m + 1 = Len(raw) /\ raw[Len(raw)] = NL}
    IN IF cand = {} THEN raw
       ELSE LET m == Min(cand)
            IN SubSeq(raw, k + 1, k + m) \o SubSeq(raw, 2 * k + m + 1, Len(raw))

\* re.sub(r'\*{1,3}', '', value): every run of asterisks goes
strip_star_runs(value) == SelectSeq(value, LAMBDA c : c # STAR)

\* re.match(r'^\s*([-*])\s+(.*)', value): 0 when there is no match, else the
\* position where group 2 starts (both \s runs are greedy and (.*) may be empty)
QuoteListStart(value) ==
    LET lead == {i \in 1..Len(value) : value[i] \notin Whitespace}
    IN IF lead = {} THEN 0
       ELSE LET b == Min(lead)
            IN IF value[b] \notin {"-", STAR} THEN 0
               ELSE IF b = Len(value) \/ value[b + 1] \notin Whitespace THEN 0
               ELSE LET rest == {i \in (b + 1)..Len(value) : value[i] \notin Whitespace}
                    IN IF rest = {} THEN Len(value) + 1 ELSE Min(rest)

\* list_match.group(2): (.*) stops before the first newline
QuoteListContent(value) ==
    LET st == QuoteListStart(value)
        nls == {i \in st..Len(value) : value[i] = NL}
    IN IF nls = {} THEN SubSeq(value, st, Len(value))
       ELSE SubSeq(value, st, Min(nls) - 1)

(***************************************************************************)
(* SlackRenderer._format_table                                             *)
(***************************************************************************)
\* a backtick cannot stand in a TLA+ string: the character is written by its
\* code point
BACKTICK == "U+0060"
FENCE == <<BACKTICK, BACKTICK, BACKTICK>>

\* line 120 without its filter: blank lines stay
table_lines_with_blank(md) == split(strip(md), NL)

\* the rows that line 120 keeps: table_md.strip().split('\n') if row.strip()
table_lines(md) == SelectSeq(split(strip(md), NL), LAMBDA row : strip(row) # <<>>)

\* [cell.strip() for cell in row.strip('|').split('|')]
row_cells(row) ==
    LET raw_cells == split(strip_char(row, PIPE), PIPE)
    IN [i \in 1..Len(raw_cells) |-> strip(raw_cells[i])]

\* rows, line 123
parse_rows(md) ==
    LET ls == table_lines(md)
    IN [i \in 1..Len(ls) |-> row_cells(ls[i])]

\* max(len(row) for row in rows)
max_cols(rs) == Max({Len(rs[i]) : i \in 1..Len(rs)})

\* row + [''] * (max_cols - len(row))
pad_row(row, n) == row \o [i \in 1..(n - Len(row)) |-> <<>>]

padded_rows(rs) == [i \in 1..Len(rs) |-> pad_row(rs[i], max_cols(rs))]

\* [max(len(cell) for cell in column) for column in zip(*padded_rows)]
column_widths(prs) ==
    [c \in 1..Len(prs[1]) |-> Max({Len(prs[i][c]) : i \in 1..Len(prs)})]

\* " | ".join(cell.ljust(col_widths[idx]) for idx, cell in enumerate(row))
format_row(row, widths) ==
    join(<<SP, PIPE, SP>>, [c \in 1..Len(row) |-> ljust(row[c], widths[c])])

_format_table(md) ==
    LET rs == parse_rows(md)
    IN IF rs = <<>> THEN FENCE \o <<NL>> \o FENCE
       ELSE LET prs == padded_rows(rs)
                widths == column_widths(prs)
                formatted_rows == [i \in 1..Len(prs) |-> format_row(prs[i], widths)]
            IN FENCE \o <<NL>> \o join(<<NL>>, formatted_rows) \o <<NL>> \o FENCE

(***************************************************************************)
(* SlackRenderer.render                                                    *)
(***************************************************************************)
\* U+00E2 U+20AC U+00A2: the three characters between the spaces of the
\* literal of line 51
QUOTE_BULLET == <<"U+00E2", "U+20AC", "U+00A2">>

\* list_counters.pop(indent_level, None)
pop(counters, level) == [i \in (DOMAIN counters) \ {level} |-> counters[i]]

\* list_counters[indent_level] = n
put(counters, level, n) ==
    [i \in (DOMAIN counters) \cup {level} |-> IF i = level THEN n ELSE counters[i]]

\* list_counters.get(indent_level, 1)
get(counters, level, default) ==
    IF level \in DOMAIN counters THEN counters[level] ELSE default

\* lines 27-32 with PARAGRAPH and PARAGRAPH_BREAK dropped from the list of line 30
reset_counters_paragraph(counters, token) ==
    IF token.type \in {"UNORDERED_LIST", "LETTERED_LIST"}
    THEN [i \in (DOMAIN counters) \ {token.indent} |-> counters[i]]
    ELSE IF token.type \notin {"NUMBERED_LIST"}
    THEN [i \in (DOMAIN counters) \ {token.indent} |-> counters[i]]
    ELSE counters

\* lines 27-32
reset_counters(counters, token) ==
    IF token.type \in {"UNORDERED_LIST", "LETTERED_LIST"}
    THEN pop(counters, token.indent)
    ELSE IF token.type \notin {"NUMBERED_LIST", "PARAGRAPH", "PARAGRAPH_BREAK"}
    THEN pop(counters, token.indent)
    ELSE counters

\* lines 80-93: what the branch stores in list_counters[indent_level]
numbered_next(counters, token) ==
    LET number == token.number
        current_count == get(counters, token.indent, 1)
    IN IF number = 1 THEN 2
       ELSE IF number = current_count THEN number + 1
       ELSE number + 1

\* lines 80-93 with the bullet of the last branch taken from current_count
numbered_bullet_predicted(counters, token) ==
    LET number == token.number
        current_count == IF token.indent \in DOMAIN counters
                         THEN counters[token.indent] ELSE 1
    IN IF number = 1 THEN <<"1", ".">>
       ELSE IF number = current_count THEN str_int(number) \o <<".">>
       ELSE str_int(current_count) \o <<".">>

\* lines 80-93: bullet
numbered_bullet(counters, token) ==
    LET number == token.number
        current_count == get(counters, token.indent, 1)
    IN IF number = 1 THEN <<"1", ".">>
       ELSE IF number = current_count THEN str_int(number) \o <<".">>
       ELSE str_int(number) \o <<".">>

\* lines 27-32 and 85-92: list_counters after the token
counters_after(counters, token) ==
    LET c == reset_counters(counters, token)
    IN IF token.type = "NUMBERED_LIST"
       THEN put(c, token.indent, numbered_next(c, token))
       ELSE c

\* lines 55-77 with the branches of lines 57 and 60 in the other order
header_line_bold_first(token) ==
    LET raw == token.raw
        value == token.value
        indent_spaces == Spaces(token.indent)
        bold_italic(inner) == indent_spaces \o <<STAR, "_">> \o inner \o <<"_", STAR>>
        bold(inner) == indent_spaces \o <<STAR>> \o inner \o <<STAR>>
    IN IF fullmatch_stars(2, raw) THEN bold(sub_anchored(2, raw))
       ELSE IF fullmatch_stars(3, raw) THEN bold_italic(sub_anchored(3, raw))
       ELSE IF fullmatch_stars(1, raw) THEN bold_italic(sub_anchored(1, raw))
       ELSE IF search_stars(3, raw) THEN bold_italic(sub_stars(3, raw))
       ELSE IF search_stars(2, raw) THEN bold(sub_stars(2, raw))
       ELSE IF search_stars(1, raw) THEN bold_italic(sub_stars(1, raw))
       ELSE bold(strip_star_runs(value))

\* lines 55-77 with inner of lines 67, 70 and 73 taken as group 1 of the first
\* match (re.search(...).group(1)) instead of re.sub over raw
header_line_first_span(token) ==
    LET raw == token.raw
        value == token.value
        indent_spaces == Spaces(token.indent)
        bold_italic(inner) == indent_spaces \o <<STAR, "_">> \o inner \o <<"_", STAR>>
        bold(inner) == indent_spaces \o <<STAR>> \o inner \o <<STAR>>
    IN IF fullmatch_stars(3, raw) THEN bold_italic(sub_anchored(3, raw))
       ELSE IF fullmatch_stars(2, raw) THEN bold(sub_anchored(2, raw))
       ELSE IF fullmatch_stars(1, raw) THEN bold_italic(sub_anchored(1, raw))
       ELSE IF search_stars(3, raw) THEN bold_italic(FirstSpan(3, raw))
       ELSE IF search_stars(2, raw) THEN bold(FirstSpan(2, raw))
       ELSE IF search_stars(1, raw) THEN bold_italic(FirstSpan(1, raw))
       ELSE bold(strip_star_runs(value))

\* lines 55-77
header_line(token) ==
    LET raw == token.raw
        value == token.value
        indent_spaces == Spaces(token.indent)
        bold_italic(inner) == indent_spaces \o <<STAR, "_">> \o inner \o <<"_", STAR>>
        bold(inner) == indent_spaces \o <<STAR>> \o inner \o <<STAR>>
    IN IF fullmatch_stars(3, raw) THEN bold_italic(sub_anchored(3, raw))
       ELSE IF fullmatch_stars(2, raw) THEN bold(sub_anchored(2, raw))
       ELSE IF fullmatch_stars(1, raw) THEN bold_italic(sub_anchored(1, raw))
       ELSE IF search_stars(3, raw) THEN bold_italic(sub_stars(3, raw))
       ELSE IF search_stars(2, raw) THEN bold(sub_stars(2, raw))
       ELSE IF search_stars(1, raw) THEN bold_italic(sub_stars(1, raw))
       ELSE bold(strip_star_runs(value))

\* lines 46-53
quote_line(token) ==
    LET quote_prefix == Repeat(">", token.level)
        value == token.value
    IN IF QuoteListStart(value) > 0
       THEN quote_prefix \o <<SP>> \o QUOTE_BULLET \o <<SP>> \o QuoteListContent(value)
       ELSE quote_prefix \o <<SP>> \o Spaces(token.indent) \o value

\* lines 34-106: what the token appends to output; counters is list_counters
\* after lines 27-32
token_line(counters, token) ==
    LET indent_spaces == Spaces(token.indent)
    IN CASE token.type = "HRULE" -> <<NL>>
         [] token.type = "PARAGRAPH" -> indent_spaces \o token.value
         [] token.type = "PARAGRAPH_BREAK" -> <<NL>>
         [] token.type = "CODE_BLOCK" -> token.value
         [] token.type = "TABLE" -> _format_table(token.value) \o <<NL>>
         [] token.type = "BLOCK_QUOTE" -> quote_line(token)
         [] token.type = "HEADER" -> header_line(token)
         [] token.type = "NUMBERED_LIST" ->
                indent_spaces \o numbered_bullet(counters, token) \o <<SP>> \o token.value
         [] token.type = "LETTERED_LIST" -> indent_spaces \o token.bullet \o <<SP>> \o token.value
         [] token.type = "UNORDERED_LIST" -> indent_spaces \o token.bullet \o <<SP>> \o token.value
         [] OTHER -> indent_spaces \o token.value

(***************************************************************************)
(* Inputs                                                                  *)
(***************************************************************************)
\* the longest token list of Spec
MaxTokens == 3
\* the longest token list of SpecReuse
MaxReuseTokens == 2
\* the calls of render on one instance in SpecReuse
MaxCalls == 3
\* the longest HEADER raw of SpecHeader
MaxRawLen == 8
\* the longest BLOCK_QUOTE value of SpecQuote
MaxQuoteLen == 4
\* the longest markup of SpecTable that is not one of SampleTables
MaxTableLen == 6

Indents == {0, 1}
Numbers == {1, 2, 3}
Levels == {1, 2}

\* every str over chars of length n at most
StrUpTo(chars, n) == UNION {[1..k -> chars] : k \in 0..n}

\* a token: a dict with every key the renderer may read; a key the type does
\* not carry holds a value the renderer never looks at
Token(type, indent, value) ==
    [type |-> type, indent |-> indent, value |-> value,
     raw |-> <<>>, level |-> 0, number |-> 0, bullet |-> <<>>]

Header(indent, raw, value) == [Token("HEADER", indent, value) EXCEPT !.raw = raw]
Quote(indent, level, value) == [Token("BLOCK_QUOTE", indent, value) EXCEPT !.level = level]
Numbered(indent, number, value) ==
    [Token("NUMBERED_LIST", indent, value) EXCEPT !.number = number]
Bulleted(type, indent, bullet, value) == [Token(type, indent, value) EXCEPT !.bullet = bullet]

\* the tokens of Spec: every type at every indent
TokenPool ==
    UNION {{Numbered(i, n, <<"x">>) : n \in Numbers}
           \cup {Bulleted("UNORDERED_LIST", i, <<"-">>, <<"u">>),
                 Bulleted("LETTERED_LIST", i, <<"a", ".">>, <<"l">>),
                 Token("PARAGRAPH", i, <<"p">>),
                 Token("PARAGRAPH_BREAK", i, <<>>),
                 Token("HRULE", i, <<"-", "-", "-">>),
                 Token("CODE_BLOCK", i, <<BACKTICK, "c", BACKTICK>>),
                 Token("TABLE", i, <<"a", PIPE, "b">>),
                 Header(i, <<STAR, STAR, "h", STAR, STAR>>, <<"h">>),
                 Quote(i, 1, <<"q">>),
                 Token("HTML", i, <<"t">>)} : i \in Indents}

TokenLists == UNION {[1..n -> TokenPool] : n \in 0..MaxTokens}

\* the tokens of SpecReuse, all at indent 0
ReusePool ==
    {Numbered(0, n, <<"x">>) : n \in {1, 2}}
    \cup {Bulleted("UNORDERED_LIST", 0, <<"-">>, <<"u">>),
          Token("PARAGRAPH", 0, <<"p">>)}

ReuseLists == UNION {[1..n -> ReusePool] : n \in 0..MaxReuseTokens}

HeaderChars == {STAR, "a", NL}
HeaderValues == {<<"v">>, <<STAR, "w", STAR>>}
HeaderLists ==
    {<<Header(i, raw, value)>> :
        i \in Indents, raw \in StrUpTo(HeaderChars, MaxRawLen), value \in HeaderValues}

QuoteChars == {"-", STAR, SP, NL, "a"}
\* "- sub item"
SampleQuotes == {<<"-", SP, "s", "u", "b", SP, "i", "t", "e", "m">>}
QuoteLists ==
    {<<Quote(i, level, value)>> :
        i \in Indents, level \in Levels,
        value \in StrUpTo(QuoteChars, MaxQuoteLen) \cup SampleQuotes}

TableChars == {"a", PIPE, SP, NL}
\* "a|bb\nccc|d", "| a | bb |\n||c", "|a||\n\n |b|"
SampleTables ==
    {<<"a", PIPE, "b", "b", NL, "c", "c", "c", PIPE, "d">>,
     <<PIPE, SP, "a", SP, PIPE, SP, "b", "b", SP, PIPE, NL, PIPE, PIPE, "c">>,
     <<PIPE, "a", PIPE, PIPE, NL, NL, SP, PIPE, "b", PIPE>>}
TableInputs == StrUpTo(TableChars, MaxTableLen) \cup SampleTables

(***************************************************************************)
(* The state machine                                                       *)
(***************************************************************************)
NoCall == [call |-> 0, tokens |-> <<>>, result |-> <<>>]

Init ==
    /\ pc = "idle"
    /\ tokens = <<>>
    /\ idx = 0
    /\ list_counters = <<>>
    /\ output = <<>>
    /\ result = <<>>
    /\ calls = 0
    /\ seen = NoCall
    /\ table_md = <<>>
    /\ rows = <<>>
    /\ col_widths = <<>>
    /\ table_out = <<>>

\* lines 19-20 with output an attribute of the instance, set when the instance
\* is made and not at line 19
BeginKeepOutput(toks) ==
    /\ pc' = "loop"
    /\ tokens' = toks
    /\ idx' = 0
    /\ list_counters' = <<>>
    /\ result' = <<>>
    /\ calls' = calls + 1
    /\ UNCHANGED <<output, seen, table_md, rows, col_widths, table_out>>

\* lines 19-20: render(tokens) is entered
Begin(toks) ==
    /\ pc' = "loop"
    /\ tokens' = toks
    /\ idx' = 0
    /\ output' = <<>>
    /\ list_counters' = <<>>
    /\ result' = <<>>
    /\ calls' = calls + 1
    /\ UNCHANGED <<seen, table_vars>>

\* the first call of render on the instance, on one of the lists of inputs
Render(inputs) == pc = "idle" /\ \E toks \in inputs : Begin(toks)

\* a later call of render on the same instance
RenderAgain(inputs) ==
    pc = "done" /\ calls < MaxCalls /\ \E toks \in inputs : Begin(toks)

\* lines 22-106: one iteration of the loop
Step ==
    /\ pc = "loop"
    /\ idx < Len(tokens)
    /\ LET token == tokens[idx + 1]
       IN /\ output' = Append(output, token_line(reset_counters(list_counters, token), token))
          /\ list_counters' = counters_after(list_counters, token)
    /\ idx' = idx + 1
    /\ UNCHANGED <<pc, tokens, result, calls, seen, table_vars>>

\* line 108; keep says whether the caller keeps the call and what it returned
\* (seen) to compare a later call with
Return(keep) ==
    /\ pc = "loop"
    /\ idx = Len(tokens)
    /\ result' = join(<<NL>>, output)
    /\ pc' = "done"
    /\ seen' = IF keep THEN [call |-> calls, tokens |-> tokens, result |-> result']
               ELSE seen
    /\ UNCHANGED <<tokens, idx, list_counters, output, calls, table_vars>>

\* lines 120-145: _format_table(md) is called on one of inputs (table_out is ""
\* until it has returned, and never after); rows and col_widths are its locals
FormatTable(inputs) ==
    /\ table_out = <<>>
    /\ \E md \in inputs :
        /\ table_md' = md
        /\ rows' = parse_rows(md)
        /\ col_widths' = IF parse_rows(md) = <<>> THEN <<>>
                         ELSE column_widths(padded_rows(parse_rows(md)))
        /\ table_out' = _format_table(md)
    /\ UNCHANGED render_vars

Next ==
    \/ Render(TokenLists)
    \/ Step
    \/ Return(FALSE)

Spec == Init /\ [][Next]_vars

NextReuse ==
    \/ Render(ReuseLists)
    \/ RenderAgain(ReuseLists)
    \/ Step
    \/ \E keep \in BOOLEAN : Return(keep)

SpecReuse == Init /\ [][NextReuse]_vars

NextHeader ==
    \/ Render(HeaderLists)
    \/ Step
    \/ Return(FALSE)

SpecHeader == Init /\ [][NextHeader]_vars

NextQuote ==
    \/ Render(QuoteLists)
    \/ Step
    \/ Return(FALSE)

SpecQuote == Init /\ [][NextQuote]_vars

NextTable == FormatTable(TableInputs)

SpecTable == Init /\ [][NextTable]_vars

(***************************************************************************)
(* Numbered lists (Spec)                                                   *)
(***************************************************************************)
\* what list_counters held for the indent of token j when the loop took it:
\* list_counters after lines 27-32 of that iteration
RECURSIVE CountersBefore(_)
CountersBefore(j) == IF j = 1 THEN <<>> ELSE counters_after(CountersBefore(j - 1), tokens[j - 1])

\* C1: a NUMBERED_LIST token with number n, value v and indent i contributes
\* exactly the line of i spaces, "n.", one space and v, whatever tokens come
\* before it and so whatever list_counters holds for i when it is taken.
C1_NumberedLine ==
    \A j \in 1..Len(output) :
        tokens[j].type = "NUMBERED_LIST" =>
            output[j] = Spaces(tokens[j].indent) \o <<Digit[tokens[j].number + 1], ".", SP>>
                            \o tokens[j].value

\* a numbered token has been rendered whose number is neither 1 nor the number
\* list_counters held for its indent
C1_Witness ==
    \E j \in 1..Len(output) :
        /\ tokens[j].type = "NUMBERED_LIST"
        /\ tokens[j].number # 1
        /\ tokens[j].indent \in DOMAIN CountersBefore(j)
        /\ CountersBefore(j)[tokens[j].indent] # tokens[j].number

\* the tokens among the first idx that count for indent i: those at indent i
\* that are no PARAGRAPH and no PARAGRAPH_BREAK
Counting(i) ==
    {j \in 1..idx : tokens[j].indent = i
                    /\ tokens[j].type \notin {"PARAGRAPH", "PARAGRAPH_BREAK"}}

\* C7: after any prefix of any token list, list_counters has an entry for
\* indent i exactly when a counting token at indent i has occurred and the
\* most recent one is a NUMBERED_LIST token, and the entry is then that
\* token's number + 1 (also for number 1).
C7_CounterMap ==
    \A i \in Indents \cup DOMAIN list_counters :
        /\ i \in DOMAIN list_counters <=>
              (Counting(i) # {} /\ tokens[Max(Counting(i))].type = "NUMBERED_LIST")
        /\ i \in DOMAIN list_counters =>
              list_counters[i] = tokens[Max(Counting(i))].number + 1

\* three tokens taken: a numbered item 1 at indent 0, then a paragraph at
\* indent 0 and a header at indent 1, and the entry for indent 0 is still 2
C7_Witness ==
    /\ idx = 3
    /\ tokens[1].type = "NUMBERED_LIST" /\ tokens[1].indent = 0 /\ tokens[1].number = 1
    /\ tokens[2].type = "PARAGRAPH" /\ tokens[2].indent = 0
    /\ tokens[3].type = "HEADER" /\ tokens[3].indent = 1
    /\ DOMAIN list_counters = {0}
    /\ list_counters[0] = 2

(***************************************************************************)
(* Blank lines (Spec)                                                      *)
(***************************************************************************)
\* the types whose tokens of TokenPool append one line that is not empty
OneLineTypes ==
    {"PARAGRAPH", "HEADER", "NUMBERED_LIST", "LETTERED_LIST", "UNORDERED_LIST", "HTML"}

\* how many of the lines of text s are empty
EmptyLines(s) == Cardinality({k \in 1..Len(split(s, NL)) : split(s, NL)[k] = <<>>})

\* C5: an HRULE or PARAGRAPH_BREAK token adds exactly one empty line between
\* the line of the token before it and the line of the token after it.
C5_OneBlankLine ==
    (/\ pc = "done"
     /\ Len(tokens) = 3
     /\ tokens[1].type \in OneLineTypes
     /\ tokens[2].type \in {"HRULE", "PARAGRAPH_BREAK"}
     /\ tokens[3].type \in OneLineTypes)
    => EmptyLines(result) = 1

(***************************************************************************)
(* Headers (SpecHeader)                                                    *)
(***************************************************************************)
\* render has returned from a call on one HEADER token
HeaderDone == pc = "done" /\ Len(tokens) = 1 /\ tokens[1].type = "HEADER"

\* raw is a text that is not empty and holds no asterisk, between k asterisks
\* on each side
Wrapped(raw, k) ==
    /\ Len(raw) >= 2 * k + 1
    /\ AllStars(raw, 1, k)
    /\ AllStars(raw, Len(raw) - k + 1, Len(raw))
    /\ \A i \in (k + 1)..(Len(raw) - k) : raw[i] # STAR

\* the line the spec gives a header of emphasis k, inner text t and indent i
Emphasis(k, t, i) ==
    Spaces(i) \o (IF k = 2 THEN <<STAR>> \o t \o <<STAR>>
                  ELSE <<STAR, "_">> \o t \o <<"_", STAR>>)

\* C2, as stated: for a HEADER token whose raw is a non-empty asterisk-free
\* text t between exactly k asterisks on each side, the line is the indent
\* spaces and then *_t_* for k = 3, *t* for k = 2, *_t_* for k = 1, whatever
\* the value field is.
C2_AnyWrappedText ==
    HeaderDone =>
        \A k \in 1..3 :
            Wrapped(tokens[1].raw, k) =>
                result = Emphasis(k, SubSeq(tokens[1].raw, k + 1, Len(tokens[1].raw) - k),
                                  tokens[1].indent)

\* C2, amended: the same for a text t that also holds no line break.
C2_WrappedLine ==
    HeaderDone =>
        \A k \in 1..3 :
            (Wrapped(tokens[1].raw, k) /\ NoNewline(tokens[1].raw, 1, Len(tokens[1].raw))) =>
                result = Emphasis(k, SubSeq(tokens[1].raw, k + 1, Len(tokens[1].raw) - k),
                                  tokens[1].indent)

\* a header "***a***" at indent 1 whose value holds asterisks has been rendered
C2_Witness ==
    /\ HeaderDone
    /\ tokens[1].raw = <<STAR, STAR, STAR, "a", STAR, STAR, STAR>>
    /\ tokens[1].indent = 1
    /\ \E i \in 1..Len(tokens[1].value) : tokens[1].value[i] = STAR
    /\ result = <<SP, STAR, "_", "a", "_", STAR>>

\* none of the three full-string patterns matches raw
NoFullMatch(raw) == \A k \in 1..3 : ~fullmatch_stars(k, raw)

\* the k of the first of the embedded patterns 3, 2, 1 that raw holds a span
\* of, 0 when it holds none
EmbeddedK(raw) ==
    IF search_stars(3, raw) THEN 3
    ELSE IF search_stars(2, raw) THEN 2
    ELSE IF search_stars(1, raw) THEN 1
    ELSE 0

\* raw with the k asterisks on each side of every span removed, spans taken
\* leftmost first and not overlapping; every other character stays
RECURSIVE KeepOutside(_, _)
KeepOutside(k, s) ==
    IF ~search_stars(k, s) THEN s
    ELSE LET p == Min({q \in 1..Len(s) : GroupLen(k, s, q) > 0})
             m == GroupLen(k, s, p)
         IN SubSeq(s, 1, p - 1) \o SubSeq(s, p + k, p + k + m - 1)
                \o KeepOutside(k, SubSeq(s, p + 2 * k + m, Len(s)))

\* C8, as stated: for a HEADER token whose raw no full-string pattern matches
\* and that holds a k-asterisk span (k tried as 3, 2, 1), the line is the
\* indent spaces and the emphasis of k around the inner text of the first
\* span only: every character of raw outside that first match is discarded.
C8_FirstSpanOnly ==
    (HeaderDone /\ NoFullMatch(tokens[1].raw) /\ EmbeddedK(tokens[1].raw) > 0) =>
        result = Emphasis(EmbeddedK(tokens[1].raw),
                          FirstSpan(EmbeddedK(tokens[1].raw), tokens[1].raw),
                          tokens[1].indent)

\* C8, amended: the line is the indent spaces and the emphasis of k around raw
\* with the asterisks of every span removed: the characters of raw outside the
\* spans are kept, so the line holds every character of raw that is no
\* asterisk, in order.
C8_SpansUnwrapped ==
    (HeaderDone /\ NoFullMatch(tokens[1].raw) /\ EmbeddedK(tokens[1].raw) > 0) =>
        /\ result = Emphasis(EmbeddedK(tokens[1].raw),
                             KeepOutside(EmbeddedK(tokens[1].raw), tokens[1].raw),
                             tokens[1].indent)
        /\ SelectSeq(result, LAMBDA c : c \notin {STAR, "_"})
              = Spaces(tokens[1].indent)
                    \o SelectSeq(tokens[1].raw, LAMBDA c : c # STAR)

\* a header "a***a***" has been rendered: one 3-asterisk span after an "a"
C8_Witness ==
    /\ HeaderDone
    /\ tokens[1].raw = <<"a", STAR, STAR, STAR, "a", STAR, STAR, STAR>>
    /\ tokens[1].indent = 0
    /\ result = <<STAR, "_", "a", "a", "_", STAR>>

(***************************************************************************)
(* Block quotes (SpecQuote)                                                *)
(***************************************************************************)
\* s without its leading whitespace
LStrip(s) ==
    LET keep == {i \in 1..Len(s) : s[i] \notin Whitespace}
    IN IF keep = {} THEN <<>> ELSE SubSeq(s, Min(keep), Len(s))

\* value, after leading whitespace, is "-" or "*" followed by whitespace
IsQuotedItem(value) ==
    /\ Len(LStrip(value)) >= 2
    /\ LStrip(value)[1] \in {"-", STAR}
    /\ LStrip(value)[2] \in Whitespace

\* the content c that follows that whitespace
QuotedItemContent(value) == LStrip(Tail(LStrip(value)))

\* C3: for a BLOCK_QUOTE token of level L, when value is a list item with
\* content c the line is L ">", " U+2022 " (a bullet between two spaces) and
\* c, whatever the indent; otherwise it is L ">", a space, the indent spaces
\* and value.
C3_QuoteLine ==
    (pc = "done" /\ Len(tokens) = 1 /\ tokens[1].type = "BLOCK_QUOTE") =>
        result = IF IsQuotedItem(tokens[1].value)
                 THEN Repeat(">", tokens[1].level) \o <<SP, "U+2022", SP>>
                          \o QuotedItemContent(tokens[1].value)
                 ELSE Repeat(">", tokens[1].level) \o <<SP>> \o Spaces(tokens[1].indent)
                          \o tokens[1].value

(***************************************************************************)
(* Calls on one instance (SpecReuse)                                       *)
(***************************************************************************)
\* C6: render keeps nothing from call to call: a call starts with an empty
\* list_counters and an empty output, and a call on the token list of an
\* earlier call on the same instance returns what that call returned, whatever
\* calls came between the two.
C6_NoCrossCallState ==
    /\ (pc = "loop" /\ idx = 0) => (list_counters = <<>> /\ output = <<>>)
    /\ (pc = "done" /\ seen.call > 0 /\ seen.call < calls /\ seen.tokens = tokens)
          => result = seen.result

\* the third call has returned, on the list of the first call, which numbers
\* a list; the second call was on another list
C6_Witness ==
    /\ pc = "done"
    /\ calls = 3
    /\ seen.call = 1
    /\ seen.tokens = tokens
    /\ Len(tokens) = 2
    /\ tokens[1].type = "NUMBERED_LIST"
    /\ tokens[2].type = "NUMBERED_LIST"
    /\ result = seen.result

(***************************************************************************)
(* Tables (SpecTable)                                                      *)
(***************************************************************************)
\* the lines of what _format_table returned
OutLines == split(table_out, NL)

\* the lines between the two fence lines
RowLines == SubSeq(OutLines, 2, Len(OutLines) - 1)

\* the largest cell count of any row
MaxCols == Max({Len(rows[k]) : k \in 1..Len(rows)})

\* cell c of row k once the row is padded with empty cells
PaddedCell(k, c) == IF c <= Len(rows[k]) THEN rows[k][c] ELSE <<>>

\* the longest cell of column c over the padded rows
Width(c) == Max({Len(PaddedCell(k, c)) : k \in 1..Len(rows)})

\* where column c starts in a row line: after the columns before it, each
\* followed by " | "
RECURSIVE ColumnStart(_)
ColumnStart(c) == IF c = 1 THEN 0 ELSE ColumnStart(c - 1) + Width(c - 1) + 3

\* "a|bb\nccc|d": the rows [a, bb] and [ccc, d]
RaggedWidths == <<"a", PIPE, "b", "b", NL, "c", "c", "c", PIPE, "d">>

\* C4: on markup with a non-blank line _format_table pads every row with
\* empty cells to MaxCols cells, takes as width of a column its longest cell
\* over the padded rows, renders a row as its cells left-justified to the
\* widths and joined by " | ", and returns the rows, one per line, between an
\* opening and a closing fence line; the rows [a, bb] and [ccc, d] get the
\* widths [3, 2] and the lines "a   | bb" and "ccc | d ".
C4_AlignedTable ==
    rows # <<>> =>
        /\ col_widths = [c \in 1..MaxCols |-> Width(c)]
        /\ Len(OutLines) = Len(rows) + 2
        /\ OutLines[1] = FENCE
        /\ OutLines[Len(OutLines)] = FENCE
        /\ \A k \in 1..Len(rows) :
              LET line == OutLines[k + 1]
              IN /\ Len(line) = ColumnStart(MaxCols) + Width(MaxCols)
                 /\ \A c \in 1..MaxCols :
                       LET start == ColumnStart(c)
                           cell == PaddedCell(k, c)
                       IN /\ SubSeq(line, start + 1, start + Len(cell)) = cell
                          /\ \A i \in (start + Len(cell) + 1)..(start + Width(c)) :
                                line[i] = SP
                          /\ c < MaxCols =>
                                SubSeq(line, start + Width(c) + 1, start + Width(c) + 3)
                                    = <<SP, PIPE, SP>>
        /\ table_md = RaggedWidths =>
              /\ col_widths = <<3, 2>>
              /\ RowLines = << <<"a", SP, SP, SP, PIPE, SP, "b", "b">>,
                               <<"c", "c", "c", SP, PIPE, SP, "d", SP>> >>

\* _format_table has returned the table of the rows [a, bb] and [ccc, d]
C4_Witness ==
    /\ table_md = RaggedWidths
    /\ rows = << << <<"a">>, <<"b", "b">> >>, << <<"c", "c", "c">>, <<"d">> >> >>
    /\ Len(OutLines) = 4

\* a row with one leading pipe and one trailing pipe removed, when present
StripOnePipe(row) ==
    LET a == IF row # <<>> /\ row[1] = PIPE THEN Tail(row) ELSE row
    IN IF a # <<>> /\ a[Len(a)] = PIPE THEN SubSeq(a, 1, Len(a) - 1) ELSE a

\* C9: for each non-blank line, _format_table strips exactly one leading and
\* exactly one trailing pipe when present (a further pipe at either end stays
\* and separates cells), splits the rest on pipes and trims every cell.
C9_StripOnePipe ==
    table_out # <<>> =>
        rows = [k \in 1..Len(table_lines(table_md)) |->
                   LET cells == split(StripOnePipe(table_lines(table_md)[k]), PIPE)
                   IN [i \in 1..Len(cells) |-> strip(cells[i])]]

\* the lines of the markup that hold a character that is no whitespace
NonBlankLines(md) ==
    SelectSeq(split(md, NL), LAMBDA l : \E i \in 1..Len(l) : l[i] \notin Whitespace)

\* the characters of a line that are neither spaces nor pipes
CellText(line) == SelectSeq(line, LAMBDA c : c \notin {SP, PIPE})

RECURSIVE SumSeq(_)
SumSeq(q) == IF q = <<>> THEN 0 ELSE Head(q) + SumSeq(Tail(q))

\* C10: for markup with a non-blank line, the row lines between the two fence
\* lines all have the length sum of the column widths + 3 * (MaxCols - 1), and
\* there is one row line per non-blank line of the markup, in the same order
\* (row line k holds the cell text of non-blank line k).
C10_RowLines ==
    NonBlankLines(table_md) # <<>> =>
        /\ Len(RowLines) = Len(NonBlankLines(table_md))
        /\ \A k \in 1..Len(RowLines) :
              /\ Len(RowLines[k]) = SumSeq(col_widths) + 3 * (Len(col_widths) - 1)
              /\ k <= Len(NonBlankLines(table_md)) =>
                    CellText(RowLines[k]) = CellText(NonBlankLines(table_md)[k])

\* _format_table has returned the table of "|a||", two blank lines and " |b|":
\* two row lines of different cell counts
C10_Witness ==
    /\ table_md = <<PIPE, "a", PIPE, PIPE, NL, NL, SP, PIPE, "b", PIPE>>
    /\ Len(RowLines) = 2
    /\ Len(rows[1]) # Len(rows[2])

====
